---- MODULE Spec2Model ----
(***************************************************************************)
(* Model of Generate_lattice.py: the multidimensional lattice generator.   *)
(*                                                                         *)
(* Strings are sequences of one-character strings, so that joining,        *)
(* splitting, printing and parsing of integers are computed as the script  *)
(* computes them.  Real numbers are integers: energies, beta, E_scale and  *)
(* Gamma_0 take integer values, and a rate is held in hundredths of a unit *)
(* (the factor min(1, exp(x)) is rounded to two decimals).  A waiting-time *)
(* moment is the exact fraction <<numerator, denominator>>.                *)
(***************************************************************************)
EXTENDS Integers, Sequences, FiniteSets, TLC

\* Bounds of the model.
MaxL == 3
MaxD == 2
MaxSites == 9

VARIABLES
    argv,               \* the command line
    args,               \* the parsed command line (argparse namespace)
    pc,                 \* position of the script
    error,              \* the uncaught exception that ended the run, if any
    position,           \* the position vector of the traversal
    i,                  \* index of the traversal loop (line 151)
    j,                  \* index of the neighbor loop (line 159)
    sites,              \* list of site keys
    neighbors,          \* neighbor keys of the current site
    flags,              \* which branch of line 171 each direction took
    trans_rates,        \* dictionary: "a->b" -> rate
    list_of_nn,         \* dictionary: site -> its 2D neighbor keys
    valid,              \* dictionary: site -> branch of line 171 per direction
    energies,           \* dictionary: key -> energy
    energy_file_exists, \* load mode (TRUE) or generate mode (FALSE)
    n,                  \* index of the output loop (line 209)
    start_sites,        \* list of start site keys
    final_sites,        \* list of final site keys
    fs,                 \* the files on disk: .energy, .network, .bc
    opened              \* files this run has opened for writing

vars == <<argv, args, pc, error, position, i, j, sites, neighbors, flags, trans_rates,
          list_of_nn, valid, energies, energy_file_exists, n, start_sites,
          final_sites, fs, opened>>

----------------------------------------------------------------------------
(* Strings                                                                 *)

DigitChars == <<"0", "1", "2", "3", "4", "5", "6", "7", "8", "9">>

IsDigit(c) == \E d \in 1..10 : DigitChars[d] = c

DigitVal(c) == (CHOOSE d \in 1..10 : DigitChars[d] = c) - 1

RECURSIVE NatToStr(_)
NatToStr(m) ==
    IF m < 10 THEN <<DigitChars[m + 1]>>
    ELSE NatToStr(m \div 10) \o <<DigitChars[(m % 10) + 1]>>

\* str(int(k))
IntToStr(m) == IF m < 0 THEN <<"-">> \o NatToStr(0 - m) ELSE NatToStr(m)

RECURSIVE DigitsToNat(_)
DigitsToNat(s) ==
    IF s = <<>> THEN 0
    ELSE 10 * DigitsToNat(SubSeq(s, 1, Len(s) - 1)) + DigitVal(s[Len(s)])

\* int(s) succeeds
IsInt(s) ==
    LET body == IF s # <<>> /\ s[1] = "-" THEN Tail(s) ELSE s
    IN  body # <<>> /\ \A k \in 1..Len(body) : IsDigit(body[k])

\* int(s)
StrToInt(s) ==
    IF s[1] = "-" THEN 0 - DigitsToNat(Tail(s)) ELSE DigitsToNat(s)

RECURSIVE Join(_, _)
\* sep.join(parts)
Join(parts, sep) ==
    IF parts = <<>> THEN <<>>
    ELSE IF Len(parts) = 1 THEN parts[1]
    ELSE parts[1] \o sep \o Join(Tail(parts), sep)

RECURSIVE SplitFrom(_, _, _)
SplitFrom(s, sep, cur) ==
    IF s = <<>> THEN <<cur>>
    ELSE IF s[1] = sep THEN <<cur>> \o SplitFrom(Tail(s), sep, <<>>)
    ELSE SplitFrom(Tail(s), sep, Append(cur, s[1]))

\* s.split(sep), sep one character
Split(s, sep) == SplitFrom(s, sep, <<>>)

None == <<"None">>

----------------------------------------------------------------------------
(* Arithmetic                                                              *)

RECURSIVE Pow(_, _)
Pow(b, e) == IF e <= 0 THEN 1 ELSE b * Pow(b, e - 1)

RECURSIVE Sum(_)
Sum(s) == IF s = <<>> THEN 0 ELSE s[1] + Sum(Tail(s))

RECURSIVE factorial(_)
factorial(m) == IF m <= 1 THEN 1 ELSE m * factorial(m - 1)

Min2(a, b) == IF a < b THEN a ELSE b

B(b) == IF b THEN 1 ELSE 0

\* 100 * exp(x), rounded to the nearest integer; saturated above x = 6,
\* zero (underflow) below x = -5.
Exp100(x) ==
    CASE x <= -6 -> 0
      [] x = -5 -> 1
      [] x = -4 -> 2
      [] x = -3 -> 5
      [] x = -2 -> 14
      [] x = -1 -> 37
      [] x = 0 -> 100
      [] x = 1 -> 272
      [] x = 2 -> 739
      [] x = 3 -> 2009
      [] x = 4 -> 5460
      [] x = 5 -> 14841
      [] OTHER -> 40343

\* A real number in the unit of the rates (hundredths).
Unit(g) == 100 * g

----------------------------------------------------------------------------
(* Dictionaries                                                            *)

EmptyDict == [k \in {} |-> 0]

DictSet(d, k, v) == [x \in (DOMAIN d) \cup {k} |-> IF x = k THEN v ELSE d[x]]

----------------------------------------------------------------------------
(* The functions of the script                                             *)

\* Find_Rate without the clamp min([1, ...]).
Find_Rate_NoClamp(beta, Ei, Ef, Gamma_0) ==
    LET deltaE == Ef - Ei
    IN  Gamma_0 * Exp100((0 - deltaE) * beta)

Find_Rate(beta, Ei, Ef, Gamma_0) ==
    LET deltaE == Ef - Ei
    IN  Gamma_0 * Min2(100, Exp100((0 - deltaE) * beta))

\* Find_Energy that looks at the first component only.
Find_Energy_First(E_0, pos) == E_0 * pos[1]

Find_Energy(E_0, pos) == E_0 * Sum(pos)

\* The nth moment of the exponential distribution of rate rate_total/100,
\* factorial(n) * (1/rate)^n, as a fraction.
Exponential_Moment(m, rate_total) ==
    <<factorial(m) * Pow(100, m), Pow(rate_total, m)>>

\* "_".join([str(int(k)) for k in position])
SiteKey(pos) == Join([k \in 1..Len(pos) |-> IntToStr(pos[k])], <<"_">>)

\* [int(coordinate) for coordinate in nn.split('_')]
KeyPosition(key) ==
    LET parts == Split(key, "_")
    IN  [k \in 1..Len(parts) |-> StrToInt(parts[k])]

EdgeKey(a, b) == a \o <<"-", ">">> \o b

increment(jj) == B(jj % 2 = 0) - B(jj % 2 = 1)

\* position[k] + (k == int(j/2)) * increment, for every k
Stepped(pos, jj) ==
    [k \in 1..Len(pos) |-> pos[k] + B(k - 1 = jj \div 2) * increment(jj)]

\* The periodic image that leaves every component as it is.
WrapNone(v, L) == v

\* The periodic image that reflects at the boundary instead of wrapping.
WrapReflect(v, L) ==
    v * B(v < L + 1) * B(v > 0) + B(v = 0) + L * B(v = L + 1)

\* The periodic image of a stepped component (line 166).
Wrap(v, L) ==
    v * B(v < L + 1) * B(v > 0) + L * B(v = 0) + B(v = L + 1)

\* The neighbor key nn (lines 163-166).
NeighborKey(pos, jj, L, pbcheck) ==
    LET st == Stepped(pos, jj)
    IN  IF ~pbcheck THEN SiteKey(st)
        ELSE SiteKey([k \in 1..Len(st) |-> Wrap(st[k], L)])

\* The condition of line 171 with the upper bound off by one.
ValidDirectionShort(pos, jj, L, pbcheck) ==
    LET v == pos[(jj \div 2) + 1] + increment(jj)
    IN  (v > 0 /\ v < L) \/ pbcheck

\* The condition of line 171.
ValidDirection(pos, jj, L, pbcheck) ==
    LET v == pos[(jj \div 2) + 1] + increment(jj)
    IN  (v > 0 /\ v < L + 1) \/ pbcheck

RECURSIVE ShiftFrom(_, _, _, _)
ShiftFrom(pos, L, jj, shift) ==
    IF jj > Len(pos) THEN pos
    ELSE LET p1 == IF shift THEN pos[jj] + 1 ELSE pos[jj]
         IN  IF p1 > L
             THEN ShiftFrom([pos EXCEPT ![jj] = 1], L, jj + 1, TRUE)
             ELSE ShiftFrom([pos EXCEPT ![jj] = p1], L, jj + 1, FALSE)

\* The shift that never carries: only component 0 moves.
NextPositionNoCarry(pos, L) ==
    [pos EXCEPT ![1] = IF pos[1] + 1 > L THEN 1 ELSE pos[1] + 1]

\* The odometer step (lines 196-204).
NextPosition(pos, L) == ShiftFrom(pos, L, 1, TRUE)

\* The energy dictionary read from the .energy file (lines 136-142).
ReadEnergies(lines) ==
    [k \in {lines[m][1] : m \in 1..Len(lines)} |->
        LET last == CHOOSE m \in 1..Len(lines) :
                        /\ lines[m][1] = k
                        /\ \A m2 \in (m + 1)..Len(lines) : lines[m2][1] # k
        IN  lines[last][2]]

RECURSIVE EnergyLines(_, _, _, _)
\* The lines written to the .energy file for one site (lines 212-218).
EnergyLines(site, nns, rates, en) ==
    IF nns = <<>> THEN <<>>
    ELSE (IF rates[EdgeKey(site, nns[1])] > 0
          THEN <<<<site, en[site]>>, <<nns[1], en[nns[1]]>>>>
          ELSE <<>>)
         \o EnergyLines(site, Tail(nns), rates, en)

\* rate_total of one site (lines 210-213).
RateTotal(site, nns, rates) ==
    Sum([k \in 1..Len(nns) |-> rates[EdgeKey(site, nns[k])]])

RECURSIVE EdgeList(_, _, _)
\* The (neighbor, rate) pairs of a network row (line 220).
EdgeList(site, nns, rates) ==
    IF nns = <<>> THEN <<>>
    ELSE (IF rates[EdgeKey(site, nns[1])] > 0
          THEN <<<<nns[1], rates[EdgeKey(site, nns[1])]>>>>
          ELSE <<>>)
         \o EdgeList(site, Tail(nns), rates)

----------------------------------------------------------------------------
(* The command lines of the model                                          *)

BetaValues == {-1, 0, 1}
EScaleValues == {1, 2}
GammaValues == {-1, 0, 1, 2}
MomentValues == {0, 1, 2}

Abs(x) == IF x < 0 THEN 0 - x ELSE x

\* Command lines whose lattice has at most MaxSites sites.
ArgSpace(Ls, Ds, pbs, betas, Es, Gs, Ms, starts, finals) ==
    { a \in [lattice_size : Ls, dimension : Ds, max_moment : Ms,
             start_sites : starts, final_sites : finals, beta : betas,
             E_scale : Es, rate_coefficient : Gs, periodic_boundary : pbs] :
        a.dimension <= 0 \/ Abs(Pow(a.lattice_size, a.dimension)) <= MaxSites }

NoFiles ==
    [energy_exists |-> FALSE, energy |-> <<>>,
     network_exists |-> FALSE, network |-> <<>>,
     bc_exists |-> FALSE, bc |-> <<>>]

\* The state of a run at its start, on the files `disk`.
Start(a, disk) ==
    /\ argv = a
    /\ args = a
    /\ pc = "check"
    /\ error = "none"
    /\ position = <<>>
    /\ i = 0
    /\ j = 0
    /\ sites = <<>>
    /\ neighbors = <<>>
    /\ flags = <<>>
    /\ trans_rates = EmptyDict
    /\ list_of_nn = EmptyDict
    /\ valid = EmptyDict
    /\ energies = EmptyDict
    /\ energy_file_exists = FALSE
    /\ n = 0
    /\ start_sites = <<>>
    /\ final_sites = <<>>
    /\ fs = disk
    /\ opened = {}

Init ==
    \E a \in ArgSpace((0 - 2)..MaxL, 0..MaxD, BOOLEAN, BetaValues, EScaleValues,
                      GammaValues, MomentValues, {None}, {None}) :
        Start(a, NoFiles)

StartChoices ==
    {None, <<"1">>, <<"3">>, <<"1", ",", "2">>, <<"1", "_", "1">>, <<"2", "_", "5">>}

FinalChoices == {None, <<"2">>, <<"0">>, <<"2", "_", "2">>}

\* Command lines that name start and final sites.
InitBC ==
    \E a \in ArgSpace((0 - 1)..2, 0..MaxD, BOOLEAN, {0}, {1}, {-1, 1}, {1},
                      StartChoices, FinalChoices) :
        Start(a, NoFiles)

----------------------------------------------------------------------------
(* The steps of the script                                                 *)

\* Check_Args (lines 60-77).
CheckArgs ==
    /\ pc = "check"
    /\ IF args.lattice_size = 0 \/ args.dimension <= 0
       THEN /\ pc' = "rejected"
            /\ args' = args
       ELSE /\ pc' = "open"
            /\ args' =
                 [args EXCEPT
                    !.start_sites =
                        IF @ = None
                        THEN Join(<<Join([d \in 1..args.dimension |-> IntToStr(1)],
                                         <<"_">>)>>, <<",">>)
                        ELSE @,
                    !.final_sites =
                        IF @ = None
                        THEN Join(<<Join([d \in 1..args.dimension |->
                                              IntToStr(args.lattice_size)],
                                         <<"_">>)>>, <<",">>)
                        ELSE @]
    /\ UNCHANGED <<argv, error, position, i, j, sites, neighbors, flags,
                   trans_rates, list_of_nn, valid, energies, energy_file_exists,
                   n, start_sites, final_sites, fs, opened>>

\* The set-up of main and the .energy file (lines 102-149).
OpenEnergy ==
    /\ pc = "open"
    /\ LET L == args.lattice_size
           D == args.dimension
           count == IF Pow(L, D) < 0 THEN 0 ELSE Pow(L, D)
       IN  /\ start_sites' = Split(args.start_sites, ",")
           /\ final_sites' = Split(args.final_sites, ",")
           /\ position' = [k \in 1..D |-> 1]
           /\ sites' = [x \in 1..count |-> <<>>]
    /\ trans_rates' = EmptyDict
    /\ list_of_nn' = EmptyDict
    /\ IF fs.energy_exists
       THEN /\ energy_file_exists' = TRUE
            /\ energies' = ReadEnergies(fs.energy)
            /\ UNCHANGED <<fs, opened>>
       ELSE /\ energy_file_exists' = FALSE
            /\ energies' = EmptyDict
            /\ fs' = [fs EXCEPT !.energy_exists = TRUE, !.energy = <<>>]
            /\ opened' = opened \cup {"energy"}
    /\ i' = 0
    /\ pc' = "loop"
    /\ UNCHANGED <<argv, args, error, j, neighbors, flags, valid, n>>

\* The head of the traversal loop (lines 151-157).
LoopHead ==
    /\ pc = "loop"
    /\ i < Len(sites)
    /\ LET site == SiteKey(position)
       IN  /\ sites' = [sites EXCEPT ![i + 1] = site]
           /\ trans_rates' = DictSet(trans_rates, EdgeKey(site, site), 0)
    /\ neighbors' = <<>>
    /\ flags' = <<>>
    /\ j' = 0
    /\ pc' = "neighbor"
    /\ UNCHANGED <<argv, args, error, position, i, list_of_nn, valid, energies,
                   energy_file_exists, n, start_sites, final_sites, fs, opened>>

\* One direction of the neighbor loop (lines 159-192).
NeighborStep ==
    /\ pc = "neighbor"
    /\ j < 2 * args.dimension
    /\ LET L == args.lattice_size
           pbcheck == args.periodic_boundary
           site == sites[i + 1]
           nn == NeighborKey(position, j, L, pbcheck)
           ok == ValidDirection(position, j, L, pbcheck)
       IN  /\ neighbors' = Append(neighbors, nn)
           /\ flags' = Append(flags, ok)
           /\ IF ok
              THEN IF energy_file_exists
                   THEN IF site \in DOMAIN energies /\ nn \in DOMAIN energies
                        THEN LET Ei == energies[site]
                                 Ef == energies[nn]
                             IN  /\ trans_rates' =
                                      DictSet(DictSet(trans_rates, EdgeKey(site, nn),
                                          Find_Rate(args.beta, Ei, Ef,
                                                    args.rate_coefficient)),
                                          EdgeKey(nn, site),
                                          Find_Rate(args.beta, Ef, Ei,
                                                    args.rate_coefficient))
                                 /\ UNCHANGED <<energies, error>>
                                 /\ pc' = "neighbor"
                                 /\ j' = j + 1
                        ELSE /\ error' = "KeyError"
                             /\ pc' = "aborted"
                             /\ UNCHANGED <<trans_rates, energies, j>>
                   ELSE LET neighbor_position == KeyPosition(nn)
                            Ei == Find_Energy(args.E_scale, position)
                            Ef == Find_Energy(args.E_scale, neighbor_position)
                        IN  /\ energies' = DictSet(DictSet(energies, site, Ei), nn, Ef)
                            /\ trans_rates' =
                                 DictSet(DictSet(trans_rates, EdgeKey(site, nn),
                                     Find_Rate(args.beta, Ei, Ef,
                                               args.rate_coefficient)),
                                     EdgeKey(nn, site),
                                     Find_Rate(args.beta, Ef, Ei,
                                               args.rate_coefficient))
                            /\ UNCHANGED error
                            /\ pc' = "neighbor"
                            /\ j' = j + 1
              ELSE /\ trans_rates' =
                        DictSet(DictSet(trans_rates, EdgeKey(site, nn), 0),
                                EdgeKey(nn, site), 0)
                   /\ energies' =
                        DictSet(DictSet(energies, EdgeKey(site, nn), 0),
                                EdgeKey(nn, site), 0)
                   /\ UNCHANGED error
                   /\ pc' = "neighbor"
                   /\ j' = j + 1
    /\ UNCHANGED <<argv, args, position, i, sites, list_of_nn, valid,
                   energy_file_exists, n, start_sites, final_sites, fs, opened>>

\* The end of one traversal step (lines 194-204).
Advance ==
    /\ pc = "neighbor"
    /\ j = 2 * args.dimension
    /\ list_of_nn' = DictSet(list_of_nn, sites[i + 1], neighbors)
    /\ valid' = DictSet(valid, sites[i + 1], flags)
    /\ position' = NextPosition(position, args.lattice_size)
    /\ i' = i + 1
    /\ pc' = "loop"
    /\ UNCHANGED <<argv, args, error, j, sites, neighbors, flags, trans_rates,
                   energies, energy_file_exists, n, start_sites, final_sites,
                   fs, opened>>

\* The .network file is opened for writing (line 207).
OpenNetwork ==
    /\ pc = "loop"
    /\ i = Len(sites)
    /\ fs' = [fs EXCEPT !.network_exists = TRUE, !.network = <<>>]
    /\ opened' = opened \cup {"network"}
    /\ n' = 0
    /\ pc' = "network"
    /\ UNCHANGED <<argv, args, error, position, i, j, sites, neighbors, flags,
                   trans_rates, list_of_nn, valid, energies, energy_file_exists,
                   start_sites, final_sites>>

\* One site of the output loop (lines 209-224).
NetworkSite ==
    /\ pc = "network"
    /\ n < Len(sites)
    /\ LET site == sites[n + 1]
           nns == list_of_nn[site]
           rate_total == RateTotal(site, nns, trans_rates)
           lines == IF energy_file_exists THEN <<>>
                    ELSE EnergyLines(site, nns, trans_rates, energies)
           head == [site |-> site, edges |-> EdgeList(site, nns, trans_rates),
                    moments |-> <<>>, coords |-> <<>>, fields |-> 1]
       IN  IF args.max_moment >= 1 /\ rate_total = 0
           THEN /\ fs' = [fs EXCEPT !.energy = @ \o lines,
                                    !.network = Append(@, head)]
                /\ error' = "ZeroDivisionError"
                /\ pc' = "aborted"
                /\ n' = n
           ELSE /\ fs' = [fs EXCEPT
                            !.energy = @ \o lines,
                            !.network = Append(@,
                                [head EXCEPT
                                    !.moments =
                                        [m \in 1..args.max_moment |->
                                            Exponential_Moment(m, rate_total)],
                                    !.coords = Split(site, "_"),
                                    !.fields = 3])]
                /\ error' = error
                /\ pc' = "network"
                /\ n' = n + 1
    /\ UNCHANGED <<argv, args, position, i, j, sites, neighbors, flags,
                   trans_rates, list_of_nn, valid, energies, energy_file_exists,
                   start_sites, final_sites, opened>>

\* The files are closed and the .bc file is written (lines 226-235).
WriteBC ==
    /\ pc = "network"
    /\ n = Len(sites)
    /\ LET part_func == Len(start_sites)
       IN  fs' = [fs EXCEPT
                    !.bc_exists = TRUE,
                    !.bc = <<[k \in 1..Len(start_sites) |->
                                 <<start_sites[k], <<1, part_func>>>>],
                             final_sites>>]
    /\ opened' = opened \cup {"bc"}
    /\ pc' = "done"
    /\ UNCHANGED <<argv, args, error, position, i, j, sites, neighbors, flags,
                   trans_rates, list_of_nn, valid, energies, energy_file_exists,
                   n, start_sites, final_sites>>

\* The script is run again with the same command line, on the files the
\* ended run left.
Rerun ==
    /\ pc \in {"done", "aborted"}
    /\ argv' = argv
    /\ args' = argv
    /\ pc' = "check"
    /\ error' = "none"
    /\ position' = <<>>
    /\ i' = 0
    /\ j' = 0
    /\ sites' = <<>>
    /\ neighbors' = <<>>
    /\ flags' = <<>>
    /\ trans_rates' = EmptyDict
    /\ list_of_nn' = EmptyDict
    /\ valid' = EmptyDict
    /\ energies' = EmptyDict
    /\ energy_file_exists' = FALSE
    /\ n' = 0
    /\ start_sites' = <<>>
    /\ final_sites' = <<>>
    /\ fs' = fs
    /\ opened' = {}

Next ==
    \/ CheckArgs
    \/ OpenEnergy
    \/ LoopHead
    \/ NeighborStep
    \/ Advance
    \/ OpenNetwork
    \/ NetworkSite
    \/ WriteBC
    \/ Rerun

Spec == Init /\ [][Next]_vars

SpecBC == InitBC /\ [][Next]_vars

----------------------------------------------------------------------------
(* Vocabulary of the properties                                            *)

L_ == args.lattice_size
D_ == args.dimension

\* A key of the form x1_x2_..._xD, every component an integer.
IsSiteKey(key) ==
    \A k \in 1..Len(Split(key, "_")) : IsInt(Split(key, "_")[k])

\* A key of a site of the lattice [1, L]^D.
InLattice(key, L, D) ==
    /\ IsSiteKey(key)
    /\ Len(KeyPosition(key)) = D
    /\ \A k \in 1..D : KeyPosition(key)[k] \in 1..L

\* The idx-th coordinate (idx from 0) in mixed-radix order, component 0 fastest.
Coordinate(idx, L, D) ==
    [k \in 1..D |-> 1 + ((idx \div Pow(L, k - 1)) % L)]

\* Number of sites whose key is already in the list.
Visited == IF pc = "neighbor" THEN i + 1 ELSE i

\* The traversal loop has run to its end in this run.
TraversalDone ==
    \/ pc \in {"network", "done"}
    \/ pc = "aborted" /\ error = "ZeroDivisionError"

\* Number of valid directions recorded for a site.
ValidCount(site) ==
    Cardinality({d \in 1..Len(valid[site]) : valid[site][d]})

\* The valid edges recorded so far: <<site, neighbor>>.
ValidEdges ==
    UNION {{<<site, list_of_nn[site][d]>> :
               d \in {e \in 1..Len(valid[site]) : valid[site][e]}} :
           site \in DOMAIN list_of_nn}

----------------------------------------------------------------------------
(* C1: for L >= 1 and D >= 1 the traversal visits exactly L^D sites, all   *)
(* distinct, every component in [1, L], in odometer order with component 0 *)
(* fastest: the idx-th site has component k equal to                       *)
(* 1 + (floor(idx / L^k) mod L); splitting its key recovers the            *)
(* coordinate; the rows of the network file follow the same order.         *)
C1_OdometerOrder ==
    (L_ >= 1 /\ D_ >= 1 /\ pc \notin {"check", "open", "rejected"}) =>
        /\ Len(sites) = Pow(L_, D_)
        /\ \A idx \in 0..(Visited - 1) :
              /\ sites[idx + 1] = SiteKey(Coordinate(idx, L_, D_))
              /\ KeyPosition(sites[idx + 1]) = Coordinate(idx, L_, D_)
              /\ InLattice(sites[idx + 1], L_, D_)
        /\ \A a, b \in 0..(Visited - 1) : a # b => sites[a + 1] # sites[b + 1]
        /\ TraversalDone => i = Pow(L_, D_)
        /\ "network" \in opened =>
              /\ Len(fs.network) <= Len(sites)
              /\ \A r \in 1..Len(fs.network) : fs.network[r].site = sites[r]
              /\ pc = "done" => Len(fs.network) = Pow(L_, D_)

C1_Witness ==
    /\ pc = "done"
    /\ L_ = 3 /\ D_ = 2
    /\ Len(fs.network) = 9
    /\ fs.network[4].site = <<"1", "_", "2">>

(* C2: under periodic boundaries every site has exactly 2D valid           *)
(* directions; under open boundaries with L > 1 a site has 2D minus the    *)
(* number of its components equal to 1 or to L.                            *)
C2_ValidDirections ==
    (L_ >= 1 /\ D_ >= 1) =>
        \A site \in DOMAIN valid :
            /\ Len(valid[site]) = 2 * D_
            /\ args.periodic_boundary => ValidCount(site) = 2 * D_
            /\ (~args.periodic_boundary /\ L_ > 1) =>
                  ValidCount(site) =
                      2 * D_ - Cardinality({k \in 1..D_ :
                                   KeyPosition(site)[k] \in {1, L_}})

C2_Witness ==
    /\ pc = "done"
    /\ ~args.periodic_boundary
    /\ L_ = 3 /\ D_ = 2
    /\ ValidCount(<<"2", "_", "2">>) = 4
    /\ ValidCount(<<"1", "_", "3">>) = 2
    /\ ValidCount(<<"2", "_", "1">>) = 3

C4_Linear ==
    ~energy_file_exists =>
        \A k \in DOMAIN energies :
            IsSiteKey(k) => energies[k] = args.E_scale * Sum(KeyPosition(k))

\* A step of the traversal in generate mode leaves every stored energy.
C4_Kept ==
    (~energy_file_exists /\ pc \in {"loop", "neighbor"}) =>
        \A k \in DOMAIN energies :
            k \in DOMAIN energies' /\ energies'[k] = energies[k]

C5_ArtifactComplete ==
    (pc = "done" /\ ~energy_file_exists) =>
        \A k \in DOMAIN energies :
            IsSiteKey(k) => \E m \in 1..Len(fs.energy) : fs.energy[m][1] = k

(* C6: a run that fails has opened no output file for writing and left no *)
(* partial record.                                                         *)
C6_NoOutputOnFailure ==
    pc = "aborted" =>
        /\ opened = {}
        /\ \A r \in 1..Len(fs.network) : fs.network[r].fields = 3

(* C7: with L <= 0 or D <= 0 the run is rejected by the argument check:    *)
(* no site is enumerated and no file is opened.                            *)
C7_Rejected ==
    (argv.lattice_size <= 0 \/ argv.dimension <= 0) =>
        /\ pc \in {"check", "rejected"}
        /\ opened = {}
        /\ sites = <<>>

(* C8: only keys of sites of [1, L]^D are written to the boundary          *)
(* condition file, each start site with probability 1/|start_sites|.       *)
C8_SitesValidated ==
    "bc" \in opened =>
        /\ \A k \in 1..Len(fs.bc[1]) :
              /\ InLattice(fs.bc[1][k][1], L_, D_)
              /\ fs.bc[1][k][2] = <<1, Len(fs.bc[1])>>
        /\ \A k \in 1..Len(fs.bc[2]) : InLattice(fs.bc[2][k], L_, D_)

\* The command line of scenario B.
ScenarioB ==
    /\ L_ = 2 /\ D_ = 1 /\ args.periodic_boundary
    /\ args.beta = 0 /\ args.rate_coefficient = 1

(* C9: with L=2, D=1, periodic boundaries, beta=0, Gamma_0=1, site "1"     *)
(* has two valid directions that both resolve to "2"; its row lists        *)
(* ("2", 1.0) twice, its total rate is 2.0 and its first moment 0.5.  For  *)
(* L=2 under periodic boundaries the two directions of every axis resolve  *)
(* to the same key.                                                        *)
C9_DoubleEdge ==
    /\ (L_ = 2 /\ D_ >= 1 /\ args.periodic_boundary) =>
          \A site \in DOMAIN list_of_nn : \A k \in 1..D_ :
              list_of_nn[site][2 * k - 1] = list_of_nn[site][2 * k]
    /\ (ScenarioB /\ <<"1">> \in DOMAIN list_of_nn) =>
          /\ list_of_nn[<<"1">>] = <<<<"2">>, <<"2">>>>
          /\ valid[<<"1">>] = <<TRUE, TRUE>>
          /\ RateTotal(<<"1">>, list_of_nn[<<"1">>], trans_rates) = Unit(2)
    /\ (ScenarioB /\ "network" \in opened /\ Len(fs.network) >= 1) =>
          /\ fs.network[1].site = <<"1">>
          /\ fs.network[1].edges = <<<<<<"2">>, Unit(1)>>, <<<<"2">>, Unit(1)>>>>
          /\ fs.network[1].fields = 3
          /\ args.max_moment >= 1 =>
                2 * fs.network[1].moments[1][1] = fs.network[1].moments[1][2]

C9_Witness ==
    /\ ScenarioB
    /\ pc = "done"
    /\ args.max_moment = 2
    /\ fs.network[1].edges = <<<<<<"2">>, 100>>, <<<<"2">>, 100>>>>
    /\ fs.network[1].moments[1] = <<100, 200>>

(* C10, as stated: for every L >= 1, D >= 1 and either boundary policy the *)
(* self-loop entry of every site is 0 from the visit on.                   *)
C10_SelfLoopAsStated ==
    (L_ >= 1 /\ D_ >= 1 /\ pc \notin {"check", "open", "rejected"}) =>
        \A idx \in 1..Visited :
            /\ EdgeKey(sites[idx], sites[idx]) \in DOMAIN trans_rates
            /\ trans_rates[EdgeKey(sites[idx], sites[idx])] = 0

(* C10, amended: the self-loop entry of every site is 0 from the visit on  *)
(* for every L >= 2 under either policy and for L = 1 under open           *)
(* boundaries; for L = 1 under periodic boundaries the site is its own     *)
(* neighbor and its self-loop entry ends as Gamma_0.                       *)
C10_SelfLoopZero ==
    (L_ >= 1 /\ D_ >= 1 /\ pc \notin {"check", "open", "rejected"}) =>
        /\ (L_ >= 2 \/ ~args.periodic_boundary) =>
              \A idx \in 1..Visited :
                  /\ EdgeKey(sites[idx], sites[idx]) \in DOMAIN trans_rates
                  /\ trans_rates[EdgeKey(sites[idx], sites[idx])] = 0
        /\ (L_ = 1 /\ args.periodic_boundary) =>
              \A site \in DOMAIN list_of_nn :
                  trans_rates[EdgeKey(site, site)] = Unit(args.rate_coefficient)

C10_Witness ==
    /\ pc = "done"
    /\ L_ = 2 /\ D_ = 2
    /\ args.periodic_boundary
    /\ args.rate_coefficient = 2
    /\ \A idx \in 1..4 : trans_rates[EdgeKey(sites[idx], sites[idx])] = 0
    /\ trans_rates[EdgeKey(<<"1", "_", "1">>, <<"2", "_", "1">>)] = 200

====
